---------------------------- MODULE Spec2Model ----------------------------
(***************************************************************************)
(* A model of scraper.py (GiselleSerate/firewall_scraper): the classes     *)
(* FirewallScraper and ElasticFirewallScraper.                             *)
(*                                                                         *)
(* Text is modelled as sequences of one-character strings, so that the     *)
(* regular-expression searches, str.split and the string comparison used   *)
(* by max() are computed as the code computes them.                        *)
(***************************************************************************)
EXTENDS Integers, Sequences, FiniteSets, TLC

(***************************************************************************)
(* Bounds of the model.                                                    *)
(***************************************************************************)
\* Largest number of child rows the anti-virus table holds.
MaxRows == 2
\* Largest number of download operations the caller invokes on one scraper.
MaxOps == 2

(***************************************************************************)
(* Characters and strings.                                                 *)
(***************************************************************************)
Digits == {"0","1","2","3","4","5","6","7","8","9"}

LowerAlnum == Digits \cup {"a","b","c","d","e","f","g","h","i","j","k","l","m",
                           "n","o","p","q","r","s","t","u","v","w","x","y","z"}

\* Code point of a character, for the characters a matched date can hold.
Ord(c) ==
  CASE c = " " -> 32
    [] c = "/" -> 47
    [] c = "0" -> 48 [] c = "1" -> 49 [] c = "2" -> 50 [] c = "3" -> 51
    [] c = "4" -> 52 [] c = "5" -> 53 [] c = "6" -> 54 [] c = "7" -> 55
    [] c = "8" -> 56 [] c = "9" -> 57
    [] c = ":" -> 58
    [] c = "D" -> 68 [] c = "P" -> 80 [] c = "T" -> 84

\* Python's str < str: lexicographic by code point, a proper prefix is smaller.
StrLess(a, b) ==
  LET m == IF Len(a) < Len(b) THEN Len(a) ELSE Len(b)
      diff == {k \in 1..m : a[k] # b[k]}
  IN  IF diff = {} THEN Len(a) < Len(b)
      ELSE LET k == CHOOSE x \in diff : \A y \in diff : x <= y
           IN  Ord(a[k]) < Ord(b[k])

(***************************************************************************)
(* Regular expressions.  A pattern is a sequence of items: a literal text, *)
(* n characters of a class (a {n} repeat), or any run of characters of a   *)
(* class (a star), which takes the longest run that lets the rest of the   *)
(* pattern match (greedy, with backtracking, as re does).                  *)
(***************************************************************************)
Lit(text) == [kind |-> "lit", text |-> text, cls |-> {}, n |-> Len(text)]

Rep(set, n) == [kind |-> "rep", text |-> <<>>, cls |-> set, n |-> n]

Star(set) == [kind |-> "star", text |-> <<>>, cls |-> set, n |-> 0]

\* Length of the run of characters of class set that starts at s[i].
RunLen(s, i, set) ==
  CHOOSE n \in 0..(Len(s) + 1 - i) :
    /\ \A j \in 0..(n - 1) : s[i + j] \in set
    /\ (i + n > Len(s) \/ s[i + n] \notin set)

\* Whether the item (not a star) matches at s[i].
ItemAt(s, i, item) ==
  /\ i + item.n - 1 <= Len(s)
  /\ \A j \in 0..(item.n - 1) :
       IF item.kind = "lit" THEN s[i + j] = item.text[j + 1]
       ELSE s[i + j] \in item.cls

\* The position after the match of items k.. of pattern p at s[i], 0 if none.
RECURSIVE MatchFrom(_, _, _, _)
RECURSIVE MatchStar(_, _, _, _, _)
MatchFrom(s, i, p, k) ==
  IF k > Len(p) THEN i
  ELSE IF p[k].kind = "star" THEN MatchStar(s, i, p, k, RunLen(s, i, p[k].cls))
  ELSE IF ItemAt(s, i, p[k]) THEN MatchFrom(s, i + p[k].n, p, k + 1)
  ELSE 0

MatchStar(s, i, p, k, n) ==
  LET r == MatchFrom(s, i + n, p, k + 1)
  IN  IF r # 0 THEN r
      ELSE IF n = 0 THEN 0
      ELSE MatchStar(s, i, p, k, n - 1)

\* re.search(p, s): the leftmost match, or None.
None == [found |-> FALSE, group0 |-> <<>>]

Search(p, s) ==
  LET starts == {i \in 1..(Len(s) + 1) : MatchFrom(s, i, p, 1) # 0}
  IN  IF starts = {} THEN None
      ELSE LET i == CHOOSE x \in starts : \A y \in starts : x <= y
           IN  [found |-> TRUE, group0 |-> SubSeq(s, i, MatchFrom(s, i, p, 1) - 1)]

\* r'[0-9]{4}\/[0-9]{2}\/[0-9]{2} [0-9]{2}:[0-9]{2}:[0-9]{2} PDT'
DatePattern ==
  << Rep(Digits, 4), Lit(<<"/">>), Rep(Digits, 2), Lit(<<"/">>), Rep(Digits, 2),
     Lit(<<" ">>), Rep(Digits, 2), Lit(<<":">>), Rep(Digits, 2), Lit(<<":">>),
     Rep(Digits, 2), Lit(<<" ","P","D","T">>) >>

\* r'[0-9]{4}-[0-9]{4}'
VersionPattern == << Rep(Digits, 4), Lit(<<"-">>), Rep(Digits, 4) >>

LinkPrefix ==
  <<"h","t","t","p","s",":","/","/","d","o","w","n","l","o","a","d","s",".",
    "p","a","l","o","a","l","t","o","n","e","t","w","o","r","k","s",".",
    "c","o","m","/","v","i","r","u","s","/",
    "A","n","t","i","V","i","r","u","s","E","x","t","e","r","n","a","l","-">>

\* r'https://downloads\.paloaltonetworks\.com/virus/AntiVirusExternal-[0-9]*\.html'
\* r'\?__gda__=[0-9]*_[a-z0-9]*'
LinkPattern ==
  << Lit(LinkPrefix), Star(Digits),
     Lit(<<".","h","t","m","l","?","_","_","g","d","a","_","_","=">>),
     Star(Digits), Lit(<<"_">>), Star(LowerAlnum) >>

(***************************************************************************)
(* str.split('-')[0]: the text before the first '-', all of it if none.    *)
(***************************************************************************)
RECURSIVE SplitFirst(_, _, _)
SplitFirst(s, sep, i) ==
  IF i > Len(s) THEN s
  ELSE IF s[i] = sep THEN SubSeq(s, 1, i - 1)
  ELSE SplitFirst(s, sep, i + 1)

(***************************************************************************)
(* max(self.versions, key=lambda x: x['date']): the first record whose     *)
(* date string no other record's date string exceeds.                      *)
(***************************************************************************)
RECURSIVE MaxFrom(_, _, _)
MaxFrom(seq, best, k) ==
  IF k > Len(seq) THEN best
  ELSE IF StrLess(seq[best].date, seq[k].date) THEN MaxFrom(seq, k, k + 1)
  ELSE MaxFrom(seq, best, k + 1)

\* A selection that trusts the table to list the releases oldest first.
LatestIndexLastRow(seq) == Len(seq)

LatestIndex(seq) == MaxFrom(seq, 1, 2)

(***************************************************************************)
(* The environment: the markup of the rows the firewall can show in the    *)
(* anti-virus table (the innerHTML of the table's children).               *)
(***************************************************************************)
V3009 == <<"3","0","0","9","-","3","5","1","9">>

V3010 == <<"3","0","1","0","-","3","5","2","0">>

V3011 == <<"3","0","1","1","-","3","5","2","1">>

Date14 ==
  <<"2","0","1","9","/","0","6","/","1","4"," ",
    "0","4",":","0","2",":","0","7"," ","P","D","T">>

Date15 ==
  <<"2","0","1","9","/","0","6","/","1","5"," ",
    "0","4",":","0","2",":","0","7"," ","P","D","T">>

\* A date outside daylight-saving time: the date pattern does not match it.
DatePST ==
  <<"2","0","1","9","/","1","2","/","1","4"," ",
    "0","4",":","0","2",":","0","7"," ","P","S","T">>

MakeLink(num, token) ==
  LinkPrefix \o num \o <<".","h","t","m","l","?","_","_","g","d","a","_","_","=">>
  \o token

Link3009 == MakeLink(<<"3","0","0","9">>, <<"1","5","6","0","_","a","3","f","9">>)

Link3010 == MakeLink(<<"3","0","1","0">>, <<"1","5","6","1","_","0","b","c","4">>)

Link3011 == MakeLink(<<"3","0","1","1">>, <<"1","5","6","2","_","7","d","e">>)

Cell(text) == <<"<","t","d",">">> \o text \o <<"<","/","t","d",">">>

Anchor(url) ==
  <<"<","a"," ","h","r","e","f","=","\"">> \o url \o <<"\"",">","N","o","t","e","s","<","/","a",">">>

\* What each row of the pool shows; "" marks a field the row does not show.
RowData ==
  << [version |-> V3009, date |-> Date14,  link |-> Link3009],
     [version |-> V3010, date |-> Date15,  link |-> Link3010],
     [version |-> V3011, date |-> Date15,  link |-> Link3011],
     [version |-> V3009, date |-> DatePST, link |-> Link3009],
     [version |-> V3010, date |-> Date15,  link |-> <<>>],
     [version |-> <<>>,  date |-> Date14,  link |-> Link3011] >>

RowHtml(d) ==
  Cell(d.version) \o Cell(d.date)
  \o (IF d.link = <<>> THEN Cell(<<>>) ELSE Cell(Anchor(d.link)))

RowPool == [r \in 1..Len(RowData) |-> RowHtml(RowData[r])]

RowIds == 1..Len(RowPool)

\* The rows whose markup shows all three fields in the expected format.
GoodRowIds == {1, 2, 3}

\* The tables the firewall can show: any rows of the pool, in any order.
RECURSIVE SeqsUpTo(_, _)
SeqsUpTo(S, n) ==
  IF n = 0 THEN {<<>>}
  ELSE LET shorter == SeqsUpTo(S, n - 1)
       IN  shorter \cup {Append(t, x) : t \in {u \in shorter : Len(u) = n - 1}, x \in S}

Tables == SeqsUpTo(RowIds, MaxRows)

(***************************************************************************)
(* The file system: directories are absolute paths (sequences of names).   *)
(***************************************************************************)
\* The working directory of the process when the scraper is constructed.
StartDir == <<"home">>

RelDir == [abs |-> FALSE, parts |-> <<"contentpacks">>]

AbsDir == [abs |-> TRUE, parts |-> <<"srv", "contentpacks">>]

\* A write that leaves the file unfinished whatever happens.
WriteFileUnfinished(fs, dir, name, content, complete) ==
  {f \in fs : ~(f.dir = dir /\ f.name = name)}
  \cup {[dir |-> dir, name |-> name, content |-> <<>>, complete |-> FALSE]}

\* open(filename, 'w') and file.write(text): the file is created or replaced.
WriteFile(fs, dir, name, content, complete) ==
  {f \in fs : ~(f.dir = dir /\ f.name = name)}
  \cup {[dir |-> dir, name |-> name, content |-> content, complete |-> complete]}

\* os.path resolution of a path against the current working directory.
Resolve(wd, path) == IF path.abs THEN path.parts ELSE wd \o path.parts

\* f"Updates_{release['version']}.html"
FileName(version) ==
  <<"U","p","d","a","t","e","s","_">> \o version \o <<".","h","t","m","l">>

(***************************************************************************)
(* The external index 'update-details': a set of documents, one per id.    *)
(***************************************************************************)
\* DocStatus
DOWNLOADED == 1
PARSED == 2
AUTOFOCUSED == 3

\* Documents an earlier run (and the later pipeline stages) may have left.
OldDocs ==
  { [id |-> V3009, shortversion |-> <<"3","0","0","9">>, version |-> V3009,
     date |-> Date14, status |-> DOWNLOADED],
    [id |-> V3010, shortversion |-> <<"3","0","1","0">>, version |-> V3010,
     date |-> Date15, status |-> PARSED] }

\* A search on the wrong field of the documents.
HitsOnShortVersion(idx, v) == {d \in idx : d.shortversion = v}

\* Search(index='update-details').query('match', version__keyword=v): the hits.
Hits(idx, v) == {d \in idx : d.version = v}

\* The document _download_release builds for a release.
VersionDocWrongGroup(release) ==
  [id |-> release.version,
   shortversion |-> SubSeq(release.version, 6, Len(release.version)),
   version |-> release.version,
   date |-> release.date,
   status |-> DOWNLOADED]

VersionDoc(release) ==
  [id |-> release.version,
   shortversion |-> SplitFirst(release.version, "-", 1),
   version |-> release.version,
   date |-> release.date,
   status |-> DOWNLOADED]

\* DocType.save(): index the document under its id, replacing any older one.
Save(idx, doc) == {d \in idx : d.id # doc.id} \cup {doc}

(***************************************************************************)
(* The body of the loop over the table's children.                         *)
(***************************************************************************)
NoRelease == [version |-> <<>>, date |-> <<>>, link |-> <<>>]

\* re.search(pattern, source).group(0): AttributeError when nothing matches.
Group0(m) == m.group0

\* The body of the loop over the table's children, for the row's markup:
\* the record it appends, or the exception it raises.
ParseRow(source) ==
  LET date == Search(DatePattern, source)
      ver == Search(VersionPattern, source)
      link == Search(LinkPattern, source)
  IN  IF ~date.found \/ ~ver.found \/ ~link.found
        THEN [raised |-> TRUE, new_ver |-> NoRelease]
        ELSE [raised |-> FALSE,
              new_ver |-> [date |-> Group0(date), version |-> Group0(ver),
                           link |-> Group0(link)]]

\* What the body of the loop makes of the first n rows of the pool.
RECURSIVE RowOutcomes(_)
RowOutcomes(n) ==
  IF n = 0 THEN <<>> ELSE Append(RowOutcomes(n - 1), ParseRow(RowPool[n]))

(***************************************************************************)
(* State.                                                                  *)
(***************************************************************************)
VARIABLES
  elastic,          \* TRUE: an ElasticFirewallScraper, FALSE: a FirewallScraper
  username,         \* self._username
  password,         \* self._password
  download_dir,     \* self._download_dir
  dirs,             \* the directories that exist
  cwd,              \* the working directory of the process
  files,            \* the files written: [dir, name, content, complete]
  index,            \* the external index: its documents
  driver,           \* self._driver: "none", "open" or "closed"
  alert,            \* the default-credentials dialog: "none" or "open"
  timeout,          \* _login's attempt budget
  table,            \* the rows (ids of RowPool) of the table the page shows
  child,            \* _find_update_page: position of the row being read
  versions,         \* self.versions
  num_new_releases, \* self.num_new_releases
  pc,               \* where the control is
  caller,           \* who called _find_update_page: "init" or "user"
  op,               \* the download operation last invoked: "latest", "all", "full"
  i,                \* position of the operation's loop in self.versions
  release,          \* the release _download_release was called with
  nops,             \* operations the caller has invoked
  err,              \* the exception the last call raised to the caller, or "none"
  fetched,          \* history: releases passed to _download_release by this call
  completed,        \* history: _download_release calls of this call that returned
  queried,          \* history: versions this call looked up in the index
  indexAtStart,     \* history: the index as it was when this call started
  everSaved,        \* history: releases whose dedup-aware download completed
  alertLookups,     \* history: times this _login read switch_to.alert
  alertAccepts,     \* history: times this _login accepted the dialog
  locateDone,       \* history: the last pass over the table's rows completed
  accepted,         \* the firewall took the credentials: the post-login page loads
  loginReturned,    \* history: _login has returned normally
  clicked,          \* history: the controls of the page the scraper has clicked
  trail,            \* history: the last two events of the refresh loop
  rowOutcome        \* what the loop body makes of each row of the pool: the
                    \* searches depend on the row's markup alone, and are
                    \* worked out once, when the model starts

cfgVars == <<elastic, username, password, download_dir, dirs, rowOutcome>>

fsVars == <<cwd, files>>

loginVars ==
  <<alert, timeout, alertLookups, alertAccepts, accepted, loginReturned>>

findVars == <<table, child, versions, locateDone, clicked, trail>>

callVars == <<op, i, release, fetched, completed, queried, indexAtStart>>

vars ==
  <<elastic, username, password, download_dir, dirs, cwd, files, index, driver,
    alert, timeout, table, child, versions, num_new_releases, pc, caller, op, i,
    release, nops, err, fetched, completed, queried, indexAtStart, everSaved,
    alertLookups, alertAccepts, locateDone, accepted, loginReturned, clicked,
    trail, rowOutcome>>

\* The directories that exist: the two the scraper can be configured with,
\* and perhaps one named like the relative one inside it.
DirChoices ==
  { {StartDir, AbsDir.parts, StartDir \o RelDir.parts} \cup nested :
      nested \in SUBSET {StartDir \o RelDir.parts \o RelDir.parts} }

\* The constructor's arguments and the world around it.  The credentials
\* matter to _login alone, so they vary with the rest held fixed, and the
\* rest varies with the credentials held fixed.
Configs ==
  { [elastic |-> TRUE, creds |-> c, dir |-> AbsDir,
     dirs |-> {StartDir, AbsDir.parts, StartDir \o RelDir.parts}, index |-> {}] :
      c \in {<<"admin", "admin">>, <<"admin", "secret">>, <<"operator", "secret">>} }
  \cup
  { [elastic |-> e, creds |-> <<"admin", "admin">>, dir |-> d, dirs |-> ds,
     index |-> docs] :
      e \in BOOLEAN, d \in {RelDir, AbsDir}, ds \in DirChoices,
      docs \in SUBSET OldDocs }

\* Before the constructor runs.
Init ==
  /\ \E c \in Configs :
       /\ elastic = c.elastic
       /\ username = c.creds[1]
       /\ password = c.creds[2]
       /\ download_dir = c.dir
       /\ dirs = c.dirs
       /\ index = c.index
  /\ (download_dir.abs => dirs = {StartDir, AbsDir.parts, StartDir \o RelDir.parts})
  /\ cwd = StartDir
  /\ files = {}
  /\ driver = "none"
  /\ alert = "none"
  /\ timeout = 0
  /\ table = <<>>
  /\ child = 0
  /\ versions = <<>>
  /\ num_new_releases = 0
  /\ pc = "new"
  /\ caller = "init"
  /\ op = "none"
  /\ i = 0
  /\ release = NoRelease
  /\ nops = 0
  /\ err = "none"
  /\ fetched = <<>>
  /\ completed = 0
  /\ queried = {}
  /\ indexAtStart = {}
  /\ everSaved = {}
  /\ alertLookups = 0
  /\ alertAccepts = 0
  /\ locateDone = FALSE
  /\ accepted = FALSE
  /\ loginReturned = FALSE
  /\ clicked = {}
  /\ trail = <<>>
  /\ rowOutcome = RowOutcomes(Len(RowPool))

(***************************************************************************)
(* Construction: FirewallScraper.__init__ and ElasticFirewallScraper's.    *)
(***************************************************************************)
\* timeout = 10 in _login
LoginAttempts == 10

\* An exception of a fetch taken by the loop around it: the loop goes round.
RaiseCaughtInLoop(e) ==
  /\ err' = e
  /\ pc' = IF caller = "init" THEN "failed"
           ELSE IF pc \in {"chdir", "get", "write"} /\ op \in {"all", "full"}
             THEN "loop"
             ELSE "ready"

\* An exception leaves the call: out of the constructor no scraper is handed
\* to the caller, out of a method the caller has the scraper and the error.
Raise(e) ==
  /\ err' = e
  /\ pc' = IF caller = "init" THEN "failed" ELSE "ready"

\* webdriver.Chrome(...): the session is acquired, or the driver cannot start.
NewDriver ==
  /\ pc = "new"
  /\ \/ /\ driver' = "open"
        /\ pc' = "login"
        /\ err' = err
     \/ /\ driver' = driver
        /\ Raise("WebDriverException")
  /\ UNCHANGED <<cfgVars, fsVars, index, loginVars, findVars, num_new_releases,
                 caller, callVars, nops, everSaved>>

\* _login: load the login page, fill the form and submit it; the firewall
\* takes the credentials or turns them down, and _login looks at neither.
LoginSubmit ==
  /\ pc = "login"
  /\ \/ /\ pc' = "poll"
        /\ timeout' = LoginAttempts
        /\ accepted' \in BOOLEAN
        /\ err' = err
     \/ /\ timeout' = timeout
        /\ accepted' = accepted
        /\ Raise("NoSuchElementException")
  /\ UNCHANGED <<cfgVars, fsVars, index, driver, alert, alertLookups,
                 alertAccepts, loginReturned, findVars, num_new_releases, caller,
                 callVars, nops, everSaved>>

\* The firewall shows the default-credentials dialog, at a time of its own
\* while the page loads after the form was submitted.
DialogAppears ==
  /\ pc = "poll"
  /\ alert = "none"
  /\ alertAccepts = 0
  /\ alert' = "open"
  /\ UNCHANGED <<cfgVars, fsVars, index, driver, timeout, alertLookups,
                 alertAccepts, accepted, loginReturned, findVars,
                 num_new_releases, pc, caller, callVars, nops, err, everSaved>>

DefaultCredsEither == username = "admin" \/ password = "admin"

\* self._username == 'admin' and self._password == 'admin'
DefaultCreds == username = "admin" /\ password = "admin"

\* The budget taken to last one pass longer.
BudgetSpentBelowZero(t) == t < 0

\* if timeout < 1: return
BudgetSpent(t) == t < 1

\* _login: one pass of the while loop.
LoginAttempt ==
  /\ pc = "poll"
  /\ timeout' = timeout - 1
  /\ IF DefaultCreds
       THEN /\ alertLookups' = alertLookups + 1
            /\ IF alert = "open"
                 THEN \* alert_box.accept(); return
                      /\ alert' = "none"
                      /\ alertAccepts' = alertAccepts + 1
                      /\ pc' = "logged_in"
                 ELSE \* NoAlertPresentException: return if the budget is
                      \* spent, else sleep(1) and try again
                      /\ UNCHANGED <<alert, alertAccepts>>
                      /\ pc' = IF BudgetSpent(timeout') THEN "logged_in" ELSE "poll"
       ELSE \* no dialog is expected: return
            /\ UNCHANGED <<alert, alertLookups, alertAccepts>>
            /\ pc' = "logged_in"
  /\ UNCHANGED <<cfgVars, fsVars, index, driver, accepted, loginReturned,
                 findVars, num_new_releases, caller, callVars, nops, err,
                 everSaved>>

\* A _login that returns only once the post-login page is there.
LoginReturnsConfirmed ==
  IF accepted
    THEN loginReturned' = TRUE /\ pc' = "find" /\ err' = err
    ELSE loginReturned' = FALSE /\ Raise("TimeoutException")

\* return (lines 159 and 163), whatever page the submitted form has led to:
\* __init__ goes on to _find_update_page.
LoginReturns == loginReturned' = TRUE /\ pc' = "find" /\ err' = err

\* _login has returned: its frame (timeout, and what is recorded of its
\* passes) is gone.
LoginReturn ==
  /\ pc = "logged_in"
  /\ LoginReturns
  /\ timeout' = 0
  /\ alertLookups' = 0
  /\ alertAccepts' = 0
  /\ UNCHANGED <<cfgVars, fsVars, index, driver, alert, accepted, findVars,
                 num_new_releases, caller, callVars, nops, everSaved>>

(***************************************************************************)
(* _find_update_page.                                                      *)
(***************************************************************************)
\* The handler without its raise: the timeout is logged and the call goes on.
LandingTimeoutLogged == err' = "TimeoutException" /\ pc' = "tabs"

\* except TimeoutException: logging.error(...); raise TimeoutException
LandingTimeout == Raise("TimeoutException")

\* Load the page and wait for the device tab: it shows up (the post-login
\* page has it, the login page has not), or the wait times out.
FindLanding ==
  /\ pc = "find"
  /\ \/ /\ accepted
        /\ pc' = "tabs"
        /\ err' = err
     \/ LandingTimeout
  /\ UNCHANGED <<cfgVars, fsVars, index, driver, loginVars, findVars,
                 num_new_releases, caller, callVars, nops, everSaved>>

\* Click the device tab and Dynamic Updates, scroll Check Now into view; the
\* refresh loop is about to start.
FindTabs ==
  /\ pc = "tabs"
  /\ clicked' = clicked \cup {"device", "dynamic-updates"}
  /\ trail' = <<>>
  /\ pc' = "click"
  /\ UNCHANGED <<cfgVars, fsVars, index, driver, loginVars, table, child,
                 versions, locateDone, num_new_releases, caller, callVars, nops,
                 err, everSaved>>

\* The record of the refresh loop with e as its latest event (two are kept).
Note(tr, e) ==
  LET all == Append(tr, e)
  IN  IF Len(all) > 2 THEN Tail(all) ELSE all

\* What check_now.click() can do: go through, or raise one of these.
ClickOutcomes ==
  {"clicked", "ElementClickInterceptedException", "WebDriverException"}

\* The click loop with the first of its two except clauses only.
CaughtInterceptedOnly(e) == e = "ElementClickInterceptedException"

\* The except clauses of the click loop.
Caught(e) == e \in {"ElementClickInterceptedException", "WebDriverException"}

\* check_now.click(): it goes through (break), or it raises and the
\* exception is caught.
FindClick ==
  /\ pc = "click"
  /\ \E out \in ClickOutcomes :
       IF out = "clicked"
         THEN /\ clicked' = clicked \cup {"check-now"}
              /\ trail' = Note(trail, "click")
              /\ pc' = "settle"
              /\ err' = err
         ELSE IF Caught(out)
           THEN /\ clicked' = clicked
                /\ trail' = Note(trail, out)
                /\ pc' = "backoff"
                /\ err' = err
           ELSE /\ UNCHANGED <<clicked, trail>>
                /\ Raise(out)
  /\ UNCHANGED <<cfgVars, fsVars, index, driver, loginVars, table, child,
                 versions, locateDone, num_new_releases, caller, callVars, nops,
                 everSaved>>

\* sleep(1) in the handler, then the click loop goes round.
FindBackoff ==
  /\ pc = "backoff"
  /\ trail' = Note(trail, "backoff")
  /\ pc' = "click"
  /\ UNCHANGED <<cfgVars, fsVars, index, driver, loginVars, table, child,
                 versions, locateDone, clicked, num_new_releases, caller,
                 callVars, nops, err, everSaved>>

\* sleep(10)
FindSettle ==
  /\ pc = "settle"
  /\ trail' = Note(trail, "settle")
  /\ pc' = "wait"
  /\ UNCHANGED <<cfgVars, fsVars, index, driver, loginVars, table, child,
                 versions, locateDone, clicked, num_new_releases, caller,
                 callVars, nops, err, everSaved>>

\* A pass that goes on from the catalog it finds.
KeptCatalog(old) == old

\* self.versions = [] before the loop over the table's children.
FreshCatalog(old) == <<>>

\* A timed-out wait followed by another wait, with no click before it.
AfterTableTimeoutWait == "wait"

\* except TimeoutException: logging.warning(...): the outer loop goes round,
\* and its body starts with the click loop.
AfterTableTimeout == "click"

\* Wait for the anti-virus table: on a timeout refresh again; once it is
\* there, take its children and empty self.versions.
FindWaitTable ==
  /\ pc = "wait"
  /\ \/ /\ pc' = AfterTableTimeout
        /\ trail' = Note(trail, "timeout")
        /\ UNCHANGED <<table, child, versions, locateDone>>
     \/ \E t \in Tables :
          /\ table' = t
          /\ child' = 1
          /\ versions' = FreshCatalog(versions)
          /\ locateDone' = FALSE
          /\ trail' = Note(trail, "present")
          /\ pc' = "rows"
  /\ UNCHANGED <<cfgVars, fsVars, index, driver, loginVars, clicked,
                 num_new_releases, caller, callVars, nops, err, everSaved>>

\* One pass of the loop over the table's children.
FindRow ==
  /\ pc = "rows"
  /\ child <= Len(table)
  /\ LET row == rowOutcome[table[child]]
     IN  IF row.raised
           THEN /\ Raise("AttributeError")
                /\ UNCHANGED <<versions, child>>
           ELSE /\ versions' = Append(versions, row.new_ver)
                /\ child' = child + 1
                /\ pc' = "rows"
                /\ err' = err
  /\ UNCHANGED <<cfgVars, fsVars, index, driver, loginVars, table, locateDone,
                 clicked, trail, num_new_releases, caller, callVars, nops,
                 everSaved>>

\* The loop is over: _find_update_page returns; in the constructor, so does
\* __init__ (the dedup-aware one after setting num_new_releases = 0).
FindReturn ==
  /\ pc = "rows"
  /\ child > Len(table)
  /\ locateDone' = TRUE
  /\ pc' = "ready"
  /\ caller' = "user"
  /\ num_new_releases' = IF caller = "init" THEN 0 ELSE num_new_releases
  /\ UNCHANGED <<cfgVars, fsVars, index, driver, loginVars, table, child, versions,
                 clicked, trail, callVars, nops, err, everSaved>>

(***************************************************************************)
(* The download operations.                                                *)
(***************************************************************************)
\* self.num_new_releases = 0 left out of an operation.
CounterKept(n) == n

\* self.num_new_releases = 0, the first statement of each dedup-aware operation
\* (the other class has no counter).
CounterAtStart(n) == 0

\* The caller invokes a method of the scraper it holds.
BeginCall(name) ==
  /\ pc = "ready"
  /\ nops < MaxOps
  /\ nops' = nops + 1
  /\ op' = name
  /\ completed' = 0
  /\ queried' = {}
  /\ indexAtStart' = index

\* _download_release(r) is called.
StartDownload(r) ==
  /\ release' = r
  /\ fetched' = Append(fetched, r)
  /\ pc' = "chdir"

\* latest_download, of either class.
LatestDownload ==
  /\ BeginCall("latest")
  /\ num_new_releases' =
       IF elastic THEN CounterAtStart(num_new_releases) ELSE num_new_releases
  /\ i' = 0
  /\ IF versions = <<>>
       THEN \* max() of an empty sequence
            /\ Raise("ValueError")
            /\ release' = NoRelease
            /\ fetched' = <<>>
       ELSE /\ release' = versions[LatestIndex(versions)]
            /\ fetched' = <<release'>>
            /\ pc' = "chdir"
            /\ err' = "none"
  /\ UNCHANGED <<cfgVars, fsVars, index, driver, loginVars, findVars, caller,
                 everSaved>>

\* all_available_download, of either class.
AllAvailableDownload ==
  /\ BeginCall("all")
  /\ num_new_releases' =
       IF elastic THEN CounterAtStart(num_new_releases) ELSE num_new_releases
  /\ i' = 1
  /\ release' = NoRelease
  /\ fetched' = <<>>
  /\ pc' = "loop"
  /\ err' = "none"
  /\ UNCHANGED <<cfgVars, fsVars, index, driver, loginVars, findVars, caller,
                 everSaved>>

\* ElasticFirewallScraper.full_download.
FullDownload ==
  /\ elastic
  /\ BeginCall("full")
  /\ num_new_releases' = CounterAtStart(num_new_releases)
  /\ i' = 1
  /\ release' = NoRelease
  /\ fetched' = <<>>
  /\ pc' = "loop"
  /\ err' = "none"
  /\ UNCHANGED <<cfgVars, fsVars, index, driver, loginVars, findVars, caller,
                 everSaved>>

\* The caller has the catalog located again (here: only before it has
\* invoked a download operation).
FindUpdatePage ==
  /\ pc = "ready"
  /\ nops = 0
  /\ pc' = "find"
  /\ err' = "none"
  /\ UNCHANGED <<cfgVars, fsVars, index, driver, loginVars, findVars,
                 num_new_releases, caller, callVars, nops, everSaved>>

\* Every loop looking its releases up.
LooksUpAlways(name) == TRUE

\* full_download looks every release up; the inherited loops do not.
LooksUp(name) == name = "full"

\* One pass of the loop over self.versions of all_available_download and
\* full_download, up to the call of _download_release.
LoopNext ==
  /\ pc = "loop"
  /\ IF i > Len(versions)
       THEN \* the operation returns
            /\ pc' = "ready"
            /\ UNCHANGED <<i, release, fetched, queried>>
       ELSE IF LooksUp(op)
         THEN /\ queried' = queried \cup {versions[i].version}
              /\ IF Hits(index, versions[i].version) # {}
                   THEN \* downloaded: on to the next release
                        /\ i' = i + 1
                        /\ pc' = "loop"
                        /\ UNCHANGED <<release, fetched>>
                   ELSE /\ StartDownload(versions[i])
                        /\ i' = i
         ELSE /\ StartDownload(versions[i])
              /\ UNCHANGED <<i, queried>>
  /\ UNCHANGED <<cfgVars, fsVars, index, driver, loginVars, findVars,
                 num_new_releases, caller, op, completed, indexAtStart, nops, err,
                 everSaved>>

\* os.chdir(self._download_dir): a relative path is taken from the working
\* directory the process has now.
ChdirTarget(wd, path) == Resolve(wd, path)

DownloadChdir ==
  /\ pc = "chdir"
  /\ IF ChdirTarget(cwd, download_dir) \in dirs
       THEN /\ cwd' = ChdirTarget(cwd, download_dir)
            /\ pc' = "get"
            /\ err' = err
       ELSE /\ cwd' = cwd
            /\ Raise("FileNotFoundError")
  /\ UNCHANGED <<cfgVars, files, index, driver, loginVars, findVars,
                 num_new_releases, caller, callVars, nops, everSaved>>

\* self._driver.get(release['link']): the page loads or the driver raises.
DownloadGet ==
  /\ pc = "get"
  /\ \/ /\ pc' = "write"
        /\ err' = err
     \/ Raise("WebDriverException")
  /\ UNCHANGED <<cfgVars, fsVars, index, driver, loginVars, findVars,
                 num_new_releases, caller, callVars, nops, everSaved>>

\* _download_release has returned to the operation that called it.
Continue ==
  IF op = "latest"
    THEN pc' = "ready" /\ i' = i
    ELSE pc' = "loop" /\ i' = i + 1

\* Every scraper taken to have the dedup-aware _download_release.
SavesDocumentAlways(e) == TRUE

\* self._download_release is ElasticFirewallScraper's (which saves a document
\* after the inherited fetch) for a dedup-aware scraper, else the plain one.
SavesDocument(e) == e

\* open(filename, 'w') and file.write(self._driver.page_source): the page
\* is written, or reading it raises with the file already opened (emptied).
DownloadWrite ==
  /\ pc = "write"
  /\ \/ /\ files' = WriteFile(files, cwd, FileName(release.version), release.link, TRUE)
        /\ err' = err
        /\ IF SavesDocument(elastic)
             THEN pc' = "save" /\ i' = i /\ completed' = completed
             ELSE Continue /\ completed' = completed + 1
     \/ /\ files' = WriteFile(files, cwd, FileName(release.version), <<>>, FALSE)
        /\ Raise("WebDriverException")
        /\ UNCHANGED <<i, completed>>
  /\ UNCHANGED <<cfgVars, cwd, index, driver, loginVars, findVars,
                 num_new_releases, caller, op, release, fetched, queried,
                 indexAtStart, nops, everSaved>>

\* The dedup-aware _download_release, after the inherited one: save the
\* document (the index is taken to be reachable) and count the release.
DownloadSave ==
  /\ pc = "save"
  /\ index' = Save(index, VersionDoc(release))
  /\ num_new_releases' = num_new_releases + 1
  /\ completed' = completed + 1
  /\ everSaved' = everSaved \cup {release}
  /\ Continue
  /\ UNCHANGED <<cfgVars, fsVars, driver, loginVars, findVars, caller, op,
                 release, fetched, queried, indexAtStart, nops, err>>

(***************************************************************************)
(* The end of the scraper.                                                 *)
(***************************************************************************)
\* __del__: the scraper is collected and its finalizer closes the driver
\* (when __init__ got no driver, the finalizer raises and that is ignored).
Del ==
  /\ pc \in {"ready", "failed"}
  /\ pc' = "gone"
  /\ driver' = IF driver = "open" THEN "closed" ELSE driver
  /\ UNCHANGED <<cfgVars, fsVars, index, loginVars, findVars, num_new_releases,
                 caller, callVars, nops, err, everSaved>>

\* The interpreter exits while the scraper still exists (it is held by a
\* module global, or by the traceback of the exception that ends the
\* program): Python does not promise to run __del__ then.
InterpreterExit ==
  /\ pc \in {"ready", "failed"}
  /\ driver = "open"
  /\ pc' = "gone"
  /\ UNCHANGED <<cfgVars, fsVars, index, driver, loginVars, findVars,
                 num_new_releases, caller, callVars, nops, err, everSaved>>

Next ==
  \/ NewDriver
  \/ LoginSubmit
  \/ DialogAppears
  \/ LoginAttempt
  \/ LoginReturn
  \/ FindLanding
  \/ FindTabs
  \/ FindClick
  \/ FindBackoff
  \/ FindSettle
  \/ FindWaitTable
  \/ FindRow
  \/ FindReturn
  \/ LatestDownload
  \/ AllAvailableDownload
  \/ FullDownload
  \/ FindUpdatePage
  \/ LoopNext
  \/ DownloadChdir
  \/ DownloadGet
  \/ DownloadWrite
  \/ DownloadSave
  \/ Del
  \/ InterpreterExit

Spec == Init /\ [][Next]_vars

\* The constructor alone, from webdriver.Chrome(...) to the return of
\* _find_update_page.
Construct ==
  \/ NewDriver
  \/ LoginSubmit
  \/ DialogAppears
  \/ LoginAttempt
  \/ LoginReturn
  \/ FindLanding
  \/ FindTabs
  \/ FindClick
  \/ FindBackoff
  \/ FindSettle
  \/ FindWaitTable
  \/ FindRow
  \/ FindReturn

\* _find_update_page is sequential code: whichever statement it is at, it
\* runs.  The firewall is taken to be fair to it: a click that is tried
\* again and again goes through in the end, and a table that is waited for
\* again and again is there in the end.
LocateFairness ==
  /\ WF_vars(FindLanding \/ FindTabs \/ FindClick \/ FindBackoff \/ FindSettle
               \/ FindWaitTable \/ FindRow \/ FindReturn)
  /\ SF_vars(FindClick /\ pc' = "settle")
  /\ SF_vars(FindWaitTable /\ pc' = "rows")

FairSpec == Init /\ [][Construct]_vars /\ LocateFairness

(***************************************************************************)
(* Properties.                                                             *)
(***************************************************************************)
VersionsOf(seq) == {seq[k].version : k \in 1..Len(seq)}

\* The versions the index had an entry for when the operation started.
KnownAtStart == {d.version : d \in indexAtStart}

\* The operation `name` has returned to the caller without an exception.
Returned(name) == op = name /\ pc = "ready" /\ err = "none" /\ nops > 0

InDownload == pc \in {"chdir", "get", "write", "save"}

\* C1: full_download passes to _download_release no release whose version
\* the index knew when the call started, and when it returns (no fetch
\* having failed) the versions it passed are exactly the catalog's versions
\* minus the versions the index knew.
C1_FullDownloadFetchesNewOnly ==
  op = "full" =>
    /\ \A k \in 1..Len(fetched) : fetched[k].version \notin KnownAtStart
    /\ Returned("full") => VersionsOf(fetched) = VersionsOf(versions) \ KnownAtStart

C1_Witness ==
  /\ Returned("full")
  /\ fetched # <<>>
  /\ VersionsOf(versions) \cap KnownAtStart # {}

\* C2 as claimed: in dedup-aware mode, under every operation, a release is
\* fetched only after its version was looked up in the index, and never
\* when the index already had an entry for it.
C2_EveryOperationChecksIndex ==
  elastic =>
    \A k \in 1..Len(fetched) :
      /\ fetched[k].version \in queried
      /\ fetched[k].version \notin KnownAtStart

\* C2 as amended: in dedup-aware mode only full_download looks versions up:
\* it fetches a release only after the lookup of its version found nothing
\* and leaves the entries of the releases it skips as they were;
\* latest_download and all_available_download look nothing up and fetch
\* every release they select, all_available_download leaving a DOWNLOADED
\* entry for each release of the catalog, whatever the index held.
C2_OnlyFullDownloadChecksIndex ==
  elastic =>
    /\ op = "full" =>
         /\ \A k \in 1..Len(fetched) :
              /\ fetched[k].version \in queried
              /\ fetched[k].version \notin KnownAtStart
         /\ indexAtStart \subseteq index
    /\ op \in {"latest", "all"} => queried = {}
    /\ Returned("latest") /\ versions # <<>> => Len(fetched) = 1
    /\ Returned("all") =>
         /\ fetched = versions
         /\ \A k \in 1..Len(versions) :
              \E d \in index : d.id = versions[k].version /\ d.status = DOWNLOADED

C2_Witness ==
  /\ elastic
  /\ Returned("all")
  /\ \E k \in 1..Len(fetched) : fetched[k].version \in KnownAtStart

\* C3: in dedup-aware mode, once _download_release(release) has completed,
\* the index holds one document with the release's version as its id and
\* its version, the first four digits of the version as shortversion and
\* status DOWNLOADED, and a search for the version finds it.
C3_SavedReleaseIsIndexed ==
  \A r \in everSaved :
    /\ Hits(index, r.version) # {}
    /\ \A d \in index :
         d.id = r.version =>
           /\ d.version = r.version
           /\ d.shortversion = SubSeq(r.version, 1, 4)
           /\ \A k \in 1..4 : d.shortversion[k] \in Digits
           /\ d.status = DOWNLOADED
    /\ Cardinality({d \in index : d.id = r.version}) = 1

\* A release saved by an earlier operation is looked up by full_download
\* and not fetched again.
C3_Witness ==
  /\ op = "full"
  /\ nops = 2
  /\ \E r \in everSaved :
       /\ r.version \in queried
       /\ r.version \notin VersionsOf(fetched)
       /\ r.version \notin {d.version : d \in OldDocs}

\* C4: in dedup-aware mode num_new_releases counts the releases this call
\* has fetched: it is the number of _download_release calls of this call
\* that have completed, between two releases and when the operation returns
\* (a skipped release adds nothing), and one less while a fetch is going on.
C4_CounterCountsFetches ==
  elastic /\ nops > 0 =>
    /\ pc = "loop" => num_new_releases = Len(fetched)
    /\ InDownload => num_new_releases = Len(fetched) - 1
    /\ pc = "ready" /\ err = "none" => num_new_releases = Len(fetched)

\* The catalog 3009-3519, 3010-3520 with 3009-3519 indexed: the counter ends at 1.
C4_Witness ==
  /\ Returned("full")
  /\ Len(versions) = 2
  /\ versions[1].version = V3009
  /\ versions[2].version = V3010
  /\ KnownAtStart = {V3009}
  /\ num_new_releases = 1
  /\ VersionsOf(fetched) = {V3010}

\* The number a run of digits of a date stands for.
Num(s, from, to) ==
  LET val(k) == Ord(s[k]) - 48
  IN  IF to - from = 3
        THEN 1000 * val(from) + 100 * val(from + 1) + 10 * val(from + 2) + val(to)
        ELSE 10 * val(from) + val(to)

\* The time a date string names: year, month, day, hour, minute, second.
TimeOf(date) ==
  << Num(date, 1, 4), Num(date, 6, 7), Num(date, 9, 10),
     Num(date, 12, 13), Num(date, 15, 16), Num(date, 18, 19) >>

\* Whether time a is before time b.
Before(a, b) ==
  \E k \in 1..6 : a[k] < b[k] /\ \A j \in 1..(k - 1) : a[j] = b[j]

\* C5: with a catalog that is not empty, latest_download passes exactly one
\* release to _download_release, a release of the catalog than which no
\* release of the catalog was published later.
C5_LatestIsMaximal ==
  op = "latest" /\ versions # <<>> =>
    /\ Len(fetched) = 1
    /\ \E k \in 1..Len(versions) : versions[k] = fetched[1]
    /\ \A k \in 1..Len(versions) :
         ~Before(TimeOf(fetched[1].date), TimeOf(versions[k].date))

\* latest_download has returned, the fetched release being older than none
\* and as old as another one of the catalog.
C5_Witness ==
  /\ Returned("latest")
  /\ Len(versions) = 2
  /\ versions[1] # versions[2]
  /\ versions[1].date = versions[2].date
  /\ Len(fetched) = 1

\* The records of the rows of table t that show all three fields.
GoodRecords(t) ==
  LET good == SelectSeq(t, LAMBDA r : r \in GoodRowIds)
  IN  [k \in 1..Len(good) |-> RowData[good[k]]]

\* C6 as claimed: a row that lacks one of the three patterns does not abort
\* the locate call, and the catalog of a finished pass holds one record for
\* each row that matches all three.
C6_MalformedRowDropped ==
  /\ err # "AttributeError"
  /\ locateDone => versions = GoodRecords(table)

\* C7: while the rows are read the catalog holds exactly one record for
\* each row read in this pass, in row order, with the version, date and
\* link the row shows; when the pass is over it holds that for every row of
\* the table, and nothing from an earlier pass; and no record of the
\* catalog ever lacks a field.
C7_OneRecordPerRow ==
  /\ pc = "rows" => versions = [k \in 1..(child - 1) |-> RowData[table[k]]]
  /\ locateDone => versions = [k \in 1..Len(table) |-> RowData[table[k]]]
  /\ \A k \in 1..Len(versions) :
       /\ DOMAIN versions[k] = {"version", "date", "link"}
       /\ versions[k].version # <<>>
       /\ versions[k].date # <<>>
       /\ versions[k].link # <<>>

C7_Witness ==
  /\ locateDone
  /\ pc = "ready"
  /\ Len(table) = 2
  /\ table[1] # table[2]
  /\ Len(versions) = 2

\* The credentials are not the pair admin/admin and no dialog is showing.
OtherCredsNoDialog ==
  ~(username = "admin" /\ password = "admin") /\ alert = "none"

NoAlertRead ==
  OtherCredsNoDialog =>
    /\ alertLookups = 0
    /\ alertAccepts = 0
    /\ pc = "poll" => timeout = LoginAttempts
    /\ pc = "logged_in" => timeout = LoginAttempts - 1 /\ err = "none"

\* C8: with credentials other than admin/admin and no dialog showing,
\* _login never reads switch_to.alert and never accepts a dialog, and the
\* first pass of its loop returns, without an exception (the only other
\* step from there being the environment's: a dialog shows up).
C8_NoDialogInteraction ==
  /\ []NoAlertRead
  /\ [][pc = "poll" /\ OtherCredsNoDialog =>
          \/ pc' = "logged_in" /\ err' = "none" /\ timeout' = LoginAttempts - 1
          \/ pc' = "poll" /\ alert' = "open"]_vars

C8_Witness ==
  /\ username = "admin"
  /\ password # "admin"
  /\ alert = "none"
  /\ pc = "logged_in"

\* C9 as claimed: once the scraper is gone, the driver session it acquired
\* is not left open.
C9_SessionClosedOnExit == pc = "gone" => driver # "open"

\* C10 as claimed: every fetch writes its file into the configured download
\* directory (as it was when the scraper was constructed), none failing to.
C10_FilesInDownloadDir ==
  /\ \A f \in files : f.dir = Resolve(StartDir, download_dir)
  /\ err # "FileNotFoundError"

\* C11: when the landing wait of the locate call times out, the call ends
\* there with TimeoutException; in the constructor, which is where the call
\* is made, no control of the page has been clicked (no tab, no tree node,
\* no Check Now), the refresh loop has not started, the catalog is empty, no
\* scraper is handed to the caller and none of the download operations can
\* be invoked; a later call that times out ends the same way, at once.
C11_LandingTimeoutIsFatal ==
  /\ caller = "init" /\ pc = "find" => clicked = {} /\ trail = <<>>
  /\ err = "TimeoutException" => pc \in {"ready", "failed", "gone"}
  /\ err = "TimeoutException" /\ caller = "init" =>
       /\ pc \in {"failed", "gone"}
       /\ nops = 0
       /\ files = {}
       /\ clicked = {}
       /\ trail = <<>>
       /\ table = <<>>
       /\ versions = <<>>
       /\ ~locateDone
       /\ ~ENABLED (LatestDownload \/ AllAvailableDownload \/ FullDownload)

\* The post-login page is there but its device tab is not in time.
C11_Witness ==
  /\ accepted
  /\ pc = "failed"
  /\ err = "TimeoutException"
  /\ driver = "open"

\* C12 as claimed: _login does not return normally when no post-login page
\* follows the submitted credentials.
C12_LoginFailsUnconfirmed == loginReturned => accepted

\* C12 as amended: _login waits for no confirmation; once the form is
\* submitted it raises nothing and returns, whether or not the post-login
\* page follows.  When it does not follow, the constructor fails afterwards,
\* with the TimeoutException of the landing wait of _find_update_page,
\* before any click, and that wait is not made again.
C12_LoginReturnsUnconfirmed ==
  /\ pc \in {"poll", "logged_in"} => err = "none"
  /\ err = "TimeoutException" /\ caller = "init" => loginReturned
  /\ loginReturned /\ ~accepted =>
       /\ caller = "init"
       /\ pc \in {"find", "failed", "gone"}
       /\ pc = "find" => err = "none"
       /\ pc # "find" => err = "TimeoutException"
       /\ clicked = {}
       /\ versions = <<>>

C12_Witness ==
  /\ ~accepted
  /\ loginReturned
  /\ pc = "failed"
  /\ err = "TimeoutException"

Last(tr) == IF tr = <<>> THEN "none" ELSE tr[Len(tr)]

ClickFaults == {"ElementClickInterceptedException", "WebDriverException"}

\* check_now.click() raises.
ClickFails == FindClick /\ pc' = "backoff"

\* The wait for the table times out.
TableTimesOut == FindWaitTable /\ Last(trail') = "timeout"

\* C14: once the device tab is there, neither an intercepted click, nor a
\* driver error of the click, nor a timed-out wait for the table ends the
\* locate call: while the refresh loop runs no exception is pending and none
\* of the click's exceptions ever reaches the caller; after a click that
\* raised comes sleep(1) and then the click again, after a timed-out wait
\* comes the click again (then the delay, then the wait); and however often
\* this has happened, the click may raise and the wait may time out once more.
C14_TransientFaultsRetried ==
  /\ pc \in {"click", "backoff", "settle", "wait"} => err = "none"
  /\ nops = 0 /\ driver # "none" => err \notin ClickFaults
  /\ pc = "backoff" <=> Last(trail) \in ClickFaults
  /\ Last(trail) = "backoff" => pc = "click" /\ trail[1] \in ClickFaults
  /\ Last(trail) = "timeout" => pc = "click" /\ trail = <<"settle", "timeout">>
  /\ pc = "click" => ENABLED ClickFails /\ ENABLED (FindClick /\ pc' = "settle")
  /\ pc = "wait" => ENABLED TableTimesOut

\* The wait has timed out and the click after it was rejected by the
\* driver: the call is in sleep(1), about to click again.
C14_Witness ==
  /\ pc = "backoff"
  /\ trail = <<"timeout", "WebDriverException">>
  /\ err = "none"

\* C15: the table is waited for only right after a click that went through
\* and the sleep(10) that follows it, nothing between the two and nothing
\* between the sleep and the wait; a wait that timed out is followed by the
\* click, not by another wait; and the rows are read only after a wait that
\* found the table.
C15_TableCheckedAfterClickAndSettle ==
  /\ pc = "wait" <=> Last(trail) = "settle"
  /\ pc = "settle" <=> Last(trail) = "click"
  /\ Last(trail) = "settle" => trail = <<"click", "settle">>
  /\ Last(trail) \in {"timeout", "present"} => trail[1] = "settle"
  /\ Last(trail) = "timeout" => pc = "click"
  /\ pc = "rows" => trail = <<"settle", "present">>
  /\ caller = "init" /\ (table # <<>> \/ versions # <<>> \/ child > 0) =>
       trail = <<"settle", "present">>

\* After a wait that timed out the click has gone through again and the
\* delay is running.
C15_Witness ==
  /\ pc = "settle"
  /\ trail = <<"timeout", "click">>

\* C16 as claimed: once the device tab is there, with a firewall that lets
\* the click through in the end and shows the table in the end, the locate
\* call ends by returning a catalog.
C16_LocateReturnsCatalog ==
  (pc = "tabs") ~> (pc = "ready" /\ locateDone /\ err = "none")

\* C17: the loop of _login ends: with admin/admin it reads switch_to.alert
\* at most 10 times, once in each pass, accepts at most one dialog, in the
\* pass that finds it, and that pass returns; when no pass finds a dialog,
\* the tenth returns, no exception raised; no pass raises.
C17_DialogPollingBounded ==
  /\ alertLookups <= LoginAttempts
  /\ alertAccepts <= 1
  /\ alertAccepts = 1 => pc = "logged_in" /\ alert = "none"
  /\ pc = "poll" =>
       /\ timeout \in 1..LoginAttempts
       /\ err = "none"
       /\ DefaultCreds => alertLookups = LoginAttempts - timeout
  /\ pc = "logged_in" =>
       /\ timeout \in 0..(LoginAttempts - 1)
       /\ err = "none"
       /\ DefaultCreds =>
            /\ alertLookups = LoginAttempts - timeout
            /\ alertAccepts = 0 => timeout = 0

\* No dialog in ten passes: _login has returned.
C17_Witness ==
  /\ DefaultCreds
  /\ pc = "logged_in"
  /\ alertLookups = LoginAttempts
  /\ alertAccepts = 0
  /\ alert = "none"
  /\ err = "none"

\* The versions of the first n releases of the catalog.
VersionsUpTo(n) == {versions[j].version : j \in 1..n}

\* A complete file of release r's page is among the files.
HasFile(r) ==
  \E f \in files :
    f.name = FileName(r.version) /\ f.complete /\ f.content = r.link

\* C18: when a fetch raises in all_available_download or full_download, the
\* call is over and the caller has the error; the release that failed is
\* the i-th of the catalog and the last one passed to _download_release;
\* nothing after the i-th was fetched, looked up or indexed by the call; and
\* each release the call fetched before it still has its index entry and
\* (its version not being the one whose fetch failed) its complete file.
C18_FirstFailureAbortsBatch ==
  op \in {"all", "full"} /\ nops > 0 /\ err # "none" =>
    /\ pc \in {"ready", "gone"}
    /\ fetched # <<>>
    /\ i \in 1..Len(versions)
    /\ release = versions[i]
    /\ release = fetched[Len(fetched)]
    /\ Len(fetched) <= i
    /\ completed = Len(fetched) - 1
    /\ VersionsOf(fetched) \subseteq VersionsUpTo(i)
    /\ queried \subseteq VersionsUpTo(i)
    /\ \A d \in index :
         \/ d \in indexAtStart
         \/ \E k \in 1..(Len(fetched) - 1) : d = VersionDoc(fetched[k])
    /\ \A k \in 1..(Len(fetched) - 1) :
         /\ elastic => VersionDoc(fetched[k]) \in index
         /\ fetched[k].version # release.version => HasFile(fetched[k])

\* full_download: the fetch of the first release has failed; the second,
\* which the index has no entry for, was not looked up and was not fetched.
C18_Witness ==
  /\ op = "full"
  /\ pc = "ready"
  /\ err = "WebDriverException"
  /\ i = 1
  /\ Len(versions) = 2
  /\ versions[2].version # versions[1].version
  /\ versions[2].version \notin queried
  /\ Hits(index, versions[2].version) = {}
  /\ Len(fetched) = 1

\* The file _download_release has written for the release in hand.
FileWritten ==
  \E f \in files :
    /\ f.dir = cwd
    /\ f.name = FileName(release.version)
    /\ f.content = release.link
    /\ f.complete

\* C19: in dedup-aware mode the index changes only in the step that saves
\* the document of the release in hand, which is taken only after the
\* release's file was written whole; that step counts the release; a step in
\* which a fetch raises leaves the index and the counter as they were; and
\* every release the scraper has saved a document for has a file.
C19_IndexedOnlyAfterDownload ==
  /\ [](/\ pc = "save" => elastic /\ FileWritten /\ err = "none"
        /\ \A r \in everSaved :
             /\ \E f \in files : f.name = FileName(r.version)
             /\ VersionDoc(r) \in index)
  /\ [][/\ index' # index \/ everSaved' # everSaved => pc = "save"
        /\ pc = "save" =>
             /\ index' = Save(index, VersionDoc(release))
             /\ everSaved' = everSaved \cup {release}
             /\ num_new_releases' = num_new_releases + 1
        /\ InDownload /\ err' # err =>
             /\ index' = index
             /\ everSaved' = everSaved
             /\ num_new_releases' = num_new_releases
             /\ pc' = "ready"]_vars

\* all_available_download of a dedup-aware scraper: the first release is
\* fetched and indexed, the fetch of the second fails: no entry, counter 1.
C19_Witness ==
  /\ elastic
  /\ op = "all"
  /\ pc = "ready"
  /\ err # "none"
  /\ Len(fetched) = 2
  /\ num_new_releases = 1
  /\ Hits(index, fetched[1].version) # {}
  /\ Hits(index, fetched[2].version) = {}

\* C20 as claimed: no fetch, failed or not, leaves a file Updates_<version>.html
\* that is not the whole page, be it in place of an earlier whole one.
C20_NoPartialFileLeft == \A f \in files : f.complete /\ f.content # <<>>

=============================================================================
